---- MODULE Spec2Model ----
(***************************************************************************)
(* A model of the chess core of AskePit/chest: the board data model        *)
(* (src/core/chess_types.rs), the per-piece move generator and the move    *)
(* applicator (src/core/game_engine.rs), driven by a host that issues      *)
(* get_piece_moves, make_move and make_moves calls (src/main.rs).          *)
(*                                                                         *)
(* Option<T> is modelled as a sequence of length at most one: None is <<>> *)
(* and Some(x) is <<x>>.  Result<T, E> is a record [ok, val] or [ok, err]. *)
(* A text (&str) is the sequence of the ASCII codes of its characters.     *)
(***************************************************************************)
EXTENDS Integers, Sequences, FiniteSets, TLC

VARIABLES
    board,      \* the Board the host owns
    result,     \* the last call of the host and the value it returned
    applied     \* history: number of make_move calls that returned Ok so far

vars == <<board, result, applied>>

-----------------------------------------------------------------------------
(* Bounds of the model *)

\* make_move is called only while fewer than MaxMoves moves have been applied
MaxMoves == 3

\* make_moves (a batch) is called only on a board with at most this many moves applied
MaxBatchStart == 0

\* the files (columns c, d, e) from which the host draws the squares of single calls
InputCols == {2, 3, 4}

-----------------------------------------------------------------------------
(* chess_types.rs: Option, Color, PieceType, Piece, Address *)

None == <<>>

Some(x) == <<x>>

White == "White"

Black == "Black"

Color == {White, Black}

PieceType == {"Pawn", "Knight", "Bishop", "Rook", "Queen", "King"}

Piece(piece_type, color) == [piece_type |-> piece_type, color |-> color]

ROW_SIZE == 8

CELLS_COUNT == ROW_SIZE * ROW_SIZE

Address(col, row) == [col |-> col, row |-> row]

\* every Address that Address::new accepts (col < ROW_SIZE, row < ROW_SIZE)
Addresses == {Address(c, r) : c \in 0..(ROW_SIZE - 1), r \in 0..(ROW_SIZE - 1)}

Ok(v) == [ok |-> TRUE, val |-> v]

Err(e) == [ok |-> FALSE, err |-> e]

Unit == "()"

ParseAddressError == "ParseAddressError"

\* char::to_ascii_lowercase on an ASCII code
to_ascii_lowercase(c) == IF c >= 65 /\ c <= 90 THEN c + 32 ELSE c

\* Address::get_row_name: ('1' as u8 + row) as char
get_row_name(row) == (49 + row) % 256

\* Address::get_col_name: ('a' as u8 + col) as char
get_col_name(col) == (97 + col) % 256

\* impl Display for Address: the file letter, then the rank digit
fmt(address) == <<get_col_name(address.col), get_row_name(address.row)>>

\* from_str that forgets to lower the case of the letter
from_str_case_sensitive(s) ==
    IF Len(s) # 2 THEN Err(ParseAddressError)
    ELSE IF ~(s[1] >= 97 /\ s[1] <= 104) THEN Err(ParseAddressError)
    ELSE IF ~(s[2] >= 49 /\ s[2] <= 56) THEN Err(ParseAddressError)
    ELSE Ok([col |-> s[1] - 97, row |-> s[2] - 49])

\* impl FromStr for Address: 'a' = 97, 'h' = 104, '1' = 49, '8' = 56
from_str(s) ==
    IF Len(s) # 2 THEN Err(ParseAddressError)
    ELSE LET col == to_ascii_lowercase(s[1])
             row == to_ascii_lowercase(s[2])
         IN  IF ~(col >= 97 /\ col <= 104) THEN Err(ParseAddressError)
             ELSE IF ~(row >= 49 /\ row <= 56) THEN Err(ParseAddressError)
             ELSE Ok([col |-> col - 97, row |-> row - 49])

\* get_color that tints the squares of equal parity light
get_color_light_on_equal(address) ==
    LET flip == address.row % 2
        is_black == (address.col % 2) # flip
    IN  IF is_black THEN Black ELSE White

\* Address::get_color
get_color(address) ==
    LET flip == address.row % 2
        is_black == (address.col % 2) = flip
    IN  IF is_black THEN Black ELSE White

\* the thread panics (Result::unwrap on an Err value)
Panic == [panic |-> "Result::unwrap on an Err value"]

\* Address::parse: Address::from_str(s).unwrap()
parse(s) ==
    LET r == from_str(s)
    IN  IF r.ok THEN r.val ELSE Panic

\* get_shifted that takes the edge ROW_SIZE for a row and a column of the board
get_shifted_inclusive(address, offset) ==
    LET new_col == address.col + offset[1]
        new_row == address.row + offset[2]
    IN  IF new_row >= 0 /\ new_row <= ROW_SIZE /\ new_col >= 0 /\ new_col <= ROW_SIZE
        THEN Some(Address(new_col, new_row))
        ELSE None

\* Address::get_shifted: the sums are i8 sums of a value in 0..7 and an offset
get_shifted(address, offset) ==
    LET new_col == address.col + offset[1]
        new_row == address.row + offset[2]
    IN  IF new_row >= 0 /\ new_row < ROW_SIZE /\ new_col >= 0 /\ new_col < ROW_SIZE
        THEN Some(Address(new_col, new_row))
        ELSE None

-----------------------------------------------------------------------------
(* chess_types.rs: Board *)

\* the back rank with the king and the queen on each other's file
BackRankKingOnD ==
    <<"Rook", "Knight", "Bishop", "King", "Queen", "Bishop", "Knight", "Rook">>

BackRank == <<"Rook", "Knight", "Bishop", "Queen", "King", "Bishop", "Knight", "Rook">>

\* impl Default for Board
BoardDefault ==
    [pieces |-> [i \in 0..(CELLS_COUNT - 1) |-> None],
     whose_turn |-> White,
     flip_board |-> FALSE,
     white_graveyard |-> <<>>,
     black_graveyard |-> <<>>]

\* Board::new: the 64 cells of the array literal, a1..h1 first
BoardNew ==
    [BoardDefault EXCEPT !.pieces =
        [i \in 0..(CELLS_COUNT - 1) |->
            IF i < 8 THEN Some(Piece(BackRank[i + 1], White))
            ELSE IF i < 16 THEN Some(Piece("Pawn", White))
            ELSE IF i < 48 THEN None
            ELSE IF i < 56 THEN Some(Piece("Pawn", Black))
            ELSE Some(Piece(BackRank[i - 55], Black))]]

\* Board::new_empty
BoardNewEmpty ==
    [BoardDefault EXCEPT !.pieces = [i \in 0..(CELLS_COUNT - 1) |-> None]]

\* get_index with the file and the rank in each other's place
get_index_by_file(address) == (address.col * ROW_SIZE + address.row) % 256

\* Board::get_index (u8 arithmetic; at most 7 * 8 + 7 = 63)
get_index(address) == (address.row * ROW_SIZE + address.col) % 256

\* Board::get_cell
get_cell(b, address) == b.pieces[get_index(address)]

\* flip_player that hands the turn to Black instead of toggling it
flip_player_to_black(b) == [b EXCEPT !.whose_turn = Black]

\* Board::flip_player
flip_player(b) ==
    [b EXCEPT !.whose_turn = IF b.whose_turn = White THEN Black ELSE White]

\* kill_piece that clears the square and buries nothing
kill_piece_forget(b, address) == [b EXCEPT !.pieces[get_index(address)] = None]

\* kill_piece that buries the piece on the capturing side's list
kill_piece_swapped(b, address) ==
    LET index == get_index(address)
    IN  IF b.pieces[index] # None
        THEN LET piece == b.pieces[index][1]
                 buried == IF piece.color = White
                           THEN [b EXCEPT !.black_graveyard = Append(@, piece)]
                           ELSE [b EXCEPT !.white_graveyard = Append(@, piece)]
             IN  [buried EXCEPT !.pieces[index] = None]
        ELSE b

\* Board::kill_piece
kill_piece(b, address) ==
    LET index == get_index(address)
    IN  IF b.pieces[index] # None
        THEN LET piece == b.pieces[index][1]
                 buried == IF piece.color = White
                           THEN [b EXCEPT !.white_graveyard = Append(@, piece)]
                           ELSE [b EXCEPT !.black_graveyard = Append(@, piece)]
             IN  [buried EXCEPT !.pieces[index] = None]
        ELSE b

\* move_piece that forgets to clear the source cell
move_piece_copy(b, from, to) ==
    LET killed == kill_piece(b, to)
    IN  [killed EXCEPT !.pieces[get_index(to)] = killed.pieces[get_index(from)]]

\* Board::move_piece
move_piece(b, from, to) ==
    LET killed == kill_piece(b, to)
        index_from == get_index(from)
        index_to == get_index(to)
        placed == [killed EXCEPT !.pieces[index_to] = killed.pieces[index_from]]
    IN  [placed EXCEPT !.pieces[index_from] = None]

-----------------------------------------------------------------------------
(* game_engine.rs: move offsets <<x, y>>, given for white pieces *)

PAWN_MARCH_OFFSET == << <<0, 1>> >>

PAWN_LONG_MARCH_OFFSET == << <<0, 2>> >>

PAWN_CAPTURE_OFFSETS == << <<-1, 1>>, <<1, 1>> >>

KNIGHT_MOVE_OFFSETS ==
    << <<-1, 2>>, <<1, 2>>, <<2, 1>>, <<2, -1>>,
       <<1, -2>>, <<-1, -2>>, <<-2, -1>>, <<-2, 1>> >>

BISHOP_MOVE_OFFSETS == << <<-1, -1>>, <<-1, 1>>, <<1, -1>>, <<1, 1>> >>

ROOK_MOVE_OFFSETS == << <<-1, 0>>, <<0, 1>>, <<1, 0>>, <<0, -1>> >>

KING_QUEEN_MOVE_OFFSETS ==
    << <<-1, 0>>, <<0, 1>>, <<1, 0>>, <<0, -1>>,
       <<-1, -1>>, <<-1, 1>>, <<1, -1>>, <<1, 1>> >>

WHITE_PAWN_INITIAL_ROW == 1

BLACK_PAWN_INITIAL_ROW == 6

-----------------------------------------------------------------------------
(* game_engine.rs: MoveError *)

InvalidAddress(e) == [kind |-> "InvalidAddress", error |-> e]

NoPiece == [kind |-> "NoPiece"]

WrongColorTurn(color) == [kind |-> "WrongColorTurn", color |-> color]

UnreachableMove(from, to) == [kind |-> "UnreachableMove", from |-> from, to |-> to]

-----------------------------------------------------------------------------
(* game_engine.rs: the move generator.  Every generator takes the list     *)
(* `out` built so far and returns it with its own squares pushed.          *)

\* the closure rotate_by_color of get_pawn_moves
rotate_by_color(color, offset) ==
    IF color = White THEN offset ELSE <<-offset[1], -offset[2]>>

\* the long march that also wants the square in between empty
pawn_long_march_checked(b, address, color, out) ==
    LET is_initial_row ==
            \/ (color = White /\ address.row = WHITE_PAWN_INITIAL_ROW)
            \/ (color = Black /\ address.row = BLACK_PAWN_INITIAL_ROW)
        between == get_shifted(address, rotate_by_color(color, PAWN_MARCH_OFFSET[1]))
        shifted == get_shifted(address, rotate_by_color(color, PAWN_LONG_MARCH_OFFSET[1]))
    IN  IF /\ is_initial_row
           /\ between # None /\ get_cell(b, between[1]) = None
           /\ shifted # None /\ get_cell(b, shifted[1]) = None
        THEN Append(out, shifted[1])
        ELSE out

\* the long march offered from every row
pawn_long_march_any_row(b, address, color, out) ==
    LET shifted == get_shifted(address, rotate_by_color(color, PAWN_LONG_MARCH_OFFSET[1]))
    IN  IF shifted # None /\ get_cell(b, shifted[1]) = None
        THEN Append(out, shifted[1])
        ELSE out

\* get_pawn_moves, the block "long march"
pawn_long_march(b, address, color, out) ==
    LET is_initial_row ==
            \/ (color = White /\ address.row = WHITE_PAWN_INITIAL_ROW)
            \/ (color = Black /\ address.row = BLACK_PAWN_INITIAL_ROW)
        shifted == get_shifted(address, rotate_by_color(color, PAWN_LONG_MARCH_OFFSET[1]))
    IN  IF is_initial_row /\ shifted # None /\ get_cell(b, shifted[1]) = None
        THEN Append(out, shifted[1])
        ELSE out

\* get_pawn_moves, the block "usual march"
pawn_usual_march(b, address, color, out) ==
    LET shifted == get_shifted(address, rotate_by_color(color, PAWN_MARCH_OFFSET[1]))
    IN  IF shifted # None /\ get_cell(b, shifted[1]) = None
        THEN Append(out, shifted[1])
        ELSE out

\* get_pawn_moves, the loop "captures" from the i-th capture offset on
RECURSIVE pawn_captures(_, _, _, _, _)
pawn_captures(b, address, color, i, out) ==
    IF i > Len(PAWN_CAPTURE_OFFSETS) THEN out
    ELSE LET shifted == get_shifted(address, rotate_by_color(color, PAWN_CAPTURE_OFFSETS[i]))
             pushed == IF /\ shifted # None
                          /\ get_cell(b, shifted[1]) # None
                          /\ get_cell(b, shifted[1])[1].color # color
                       THEN Append(out, shifted[1])
                       ELSE out
         IN  pawn_captures(b, address, color, i + 1, pushed)

\* get_pawn_moves that takes the pawn's side from the turn, not from the piece
get_pawn_moves_by_turn(b, address, color, out) ==
    pawn_captures(b, address, b.whose_turn, 1,
        pawn_usual_march(b, address, b.whose_turn,
            pawn_long_march(b, address, b.whose_turn, out)))

get_pawn_moves(b, address, color, out) ==
    pawn_captures(b, address, color, 1,
        pawn_usual_march(b, address, color,
            pawn_long_march(b, address, color, out)))

\* the loop that lists every shifted square, whatever stands on it
RECURSIVE scalar_loop_any_target(_, _, _, _, _, _)
scalar_loop_any_target(scalar_offsets, b, address, color, i, out) ==
    IF i > Len(scalar_offsets) THEN out
    ELSE LET shifted == get_shifted(address, scalar_offsets[i])
             pushed == IF shifted = None THEN out ELSE Append(out, shifted[1])
         IN  scalar_loop_any_target(scalar_offsets, b, address, color, i + 1, pushed)

\* get_scalar_piece_moves, from the i-th offset on
RECURSIVE scalar_loop(_, _, _, _, _, _)
scalar_loop(scalar_offsets, b, address, color, i, out) ==
    IF i > Len(scalar_offsets) THEN out
    ELSE LET shifted == get_shifted(address, scalar_offsets[i])
             pushed == IF shifted = None THEN out
                       ELSE IF get_cell(b, shifted[1]) # None
                            THEN IF get_cell(b, shifted[1])[1].color # color
                                 THEN Append(out, shifted[1])
                                 ELSE out
                            ELSE Append(out, shifted[1])
         IN  scalar_loop(scalar_offsets, b, address, color, i + 1, pushed)

get_scalar_piece_moves(scalar_offsets, b, address, color, out) ==
    scalar_loop(scalar_offsets, b, address, color, 1, out)

\* the walk without the `break` after an enemy piece
RECURSIVE vector_walk_no_break(_, _, _, _, _)
vector_walk_no_break(b, addr, offset, color, out) ==
    IF addr = None THEN out
    ELSE LET move_address == addr[1]
         IN  IF get_cell(b, move_address) # None /\ get_cell(b, move_address)[1].color = color
             THEN out
             ELSE vector_walk_no_break(b, get_shifted(move_address, offset), offset, color,
                                       Append(out, move_address))

\* get_vector_piece_moves, the inner `while let Some(move_address) = addr`
RECURSIVE vector_walk(_, _, _, _, _)
vector_walk(b, addr, offset, color, out) ==
    IF addr = None THEN out
    ELSE LET move_address == addr[1]
         IN  IF get_cell(b, move_address) # None
             THEN IF get_cell(b, move_address)[1].color # color
                  THEN Append(out, move_address)
                  ELSE out
             ELSE vector_walk(b, get_shifted(move_address, offset), offset, color,
                              Append(out, move_address))

\* get_vector_piece_moves, from the i-th offset on
RECURSIVE vector_loop(_, _, _, _, _, _)
vector_loop(vector_offsets, b, address, color, i, out) ==
    IF i > Len(vector_offsets) THEN out
    ELSE vector_loop(vector_offsets, b, address, color, i + 1,
            vector_walk(b, get_shifted(address, vector_offsets[i]),
                        vector_offsets[i], color, out))

get_vector_piece_moves(vector_offsets, b, address, color, out) ==
    vector_loop(vector_offsets, b, address, color, 1, out)

get_knight_moves(b, address, color, out) ==
    get_scalar_piece_moves(KNIGHT_MOVE_OFFSETS, b, address, color, out)

get_bishop_moves(b, address, color, out) ==
    get_vector_piece_moves(BISHOP_MOVE_OFFSETS, b, address, color, out)

get_rook_moves(b, address, color, out) ==
    get_vector_piece_moves(ROOK_MOVE_OFFSETS, b, address, color, out)

get_queen_moves(b, address, color, out) ==
    get_vector_piece_moves(KING_QUEEN_MOVE_OFFSETS, b, address, color, out)

\* a king that slides along its directions like a queen
get_king_moves_sliding(b, address, color, out) ==
    get_vector_piece_moves(KING_QUEEN_MOVE_OFFSETS, b, address, color, out)

get_king_moves(b, address, color, out) ==
    get_scalar_piece_moves(KING_QUEEN_MOVE_OFFSETS, b, address, color, out)

\* get_piece_moves that answers an empty square with an empty list
get_piece_moves_lenient(b, address) ==
    IF get_cell(b, address) = None THEN Ok(<<>>)
    ELSE LET piece == get_cell(b, address)[1]
         IN  Ok(CASE piece.piece_type = "Pawn" -> get_pawn_moves(b, address, piece.color, <<>>)
                  [] piece.piece_type = "Knight" -> get_knight_moves(b, address, piece.color, <<>>)
                  [] piece.piece_type = "Bishop" -> get_bishop_moves(b, address, piece.color, <<>>)
                  [] piece.piece_type = "Rook" -> get_rook_moves(b, address, piece.color, <<>>)
                  [] piece.piece_type = "Queen" -> get_queen_moves(b, address, piece.color, <<>>)
                  [] piece.piece_type = "King" -> get_king_moves(b, address, piece.color, <<>>))

get_piece_moves(b, address) ==
    IF get_cell(b, address) = None THEN Err(NoPiece)
    ELSE LET piece == get_cell(b, address)[1]
             res == <<>>
         IN  Ok(CASE piece.piece_type = "Pawn" -> get_pawn_moves(b, address, piece.color, res)
                  [] piece.piece_type = "Knight" -> get_knight_moves(b, address, piece.color, res)
                  [] piece.piece_type = "Bishop" -> get_bishop_moves(b, address, piece.color, res)
                  [] piece.piece_type = "Rook" -> get_rook_moves(b, address, piece.color, res)
                  [] piece.piece_type = "Queen" -> get_queen_moves(b, address, piece.color, res)
                  [] piece.piece_type = "King" -> get_king_moves(b, address, piece.color, res))

-----------------------------------------------------------------------------
(* game_engine.rs: the move applicator.  A call returns the board it       *)
(* leaves and the value it returns.                                        *)

\* Vec::contains
contains(list, x) == \E i \in 1..Len(list) : list[i] = x

\* make_move that hands the turn over before it finds the move unreachable
make_move_flip_first(b, from, to) ==
    IF get_cell(b, from) # None /\ get_cell(b, from)[1].color # b.whose_turn
    THEN [board |-> b, ret |-> Err(NoPiece)]
    ELSE LET possible_moves == get_piece_moves(b, from)
         IN  IF ~possible_moves.ok
             THEN [board |-> b, ret |-> Err(possible_moves.err)]
             ELSE IF contains(possible_moves.val, to)
                  THEN [board |-> flip_player(move_piece(b, from, to)), ret |-> Ok(Unit)]
                  ELSE [board |-> flip_player(b), ret |-> Err(UnreachableMove(from, to))]

\* make_move that reports the endpoints of an unreachable move swapped
make_move_swapped(b, from, to) ==
    IF get_cell(b, from) # None /\ get_cell(b, from)[1].color # b.whose_turn
    THEN [board |-> b, ret |-> Err(NoPiece)]
    ELSE LET possible_moves == get_piece_moves(b, from)
         IN  IF ~possible_moves.ok
             THEN [board |-> b, ret |-> Err(possible_moves.err)]
             ELSE IF contains(possible_moves.val, to)
                  THEN [board |-> flip_player(move_piece(b, from, to)), ret |-> Ok(Unit)]
                  ELSE [board |-> b, ret |-> Err(UnreachableMove(to, from))]

\* make_move that does not look at whose turn it is
make_move_any_turn(b, from, to) ==
    LET possible_moves == get_piece_moves(b, from)
    IN  IF ~possible_moves.ok
        THEN [board |-> b, ret |-> Err(possible_moves.err)]
        ELSE IF contains(possible_moves.val, to)
             THEN [board |-> flip_player(move_piece(b, from, to)), ret |-> Ok(Unit)]
             ELSE [board |-> b, ret |-> Err(UnreachableMove(from, to))]

make_move(b, from, to) ==
    IF get_cell(b, from) # None /\ get_cell(b, from)[1].color # b.whose_turn
    THEN [board |-> b, ret |-> Err(NoPiece)]
    ELSE LET possible_moves == get_piece_moves(b, from)
         IN  IF ~possible_moves.ok
             THEN [board |-> b, ret |-> Err(possible_moves.err)]
             ELSE IF contains(possible_moves.val, to)
                  THEN [board |-> flip_player(move_piece(b, from, to)), ret |-> Ok(Unit)]
                  ELSE [board |-> b, ret |-> Err(UnreachableMove(from, to))]

\* make_moves that remembers the first error and goes on with the later pairs
RECURSIVE make_moves_loop_on(_, _, _)
make_moves_loop_on(b, moves, i) ==
    IF i > Len(moves) THEN [board |-> b, ret |-> Ok(Unit), done |-> 0]
    ELSE LET from == from_str(moves[i][1])
             to == from_str(moves[i][2])
             r == IF from.ok /\ to.ok THEN make_move(b, from.val, to.val)
                  ELSE [board |-> b, ret |-> Err(InvalidAddress(ParseAddressError))]
             rest == make_moves_loop_on(r.board, moves, i + 1)
         IN  [board |-> rest.board,
              ret |-> IF r.ret.ok THEN rest.ret ELSE r.ret,
              done |-> rest.done + (IF r.ret.ok THEN 1 ELSE 0)]

\* make_moves from the i-th pair on; `done` counts the pairs applied
RECURSIVE make_moves_loop(_, _, _)
make_moves_loop(b, moves, i) ==
    IF i > Len(moves) THEN [board |-> b, ret |-> Ok(Unit), done |-> i - 1]
    ELSE LET from == from_str(moves[i][1])
             to == from_str(moves[i][2])
         IN  IF ~from.ok
             THEN [board |-> b, ret |-> Err(InvalidAddress(from.err)), done |-> i - 1]
             ELSE IF ~to.ok
             THEN [board |-> b, ret |-> Err(InvalidAddress(to.err)), done |-> i - 1]
             ELSE LET r == make_move(b, from.val, to.val)
                  IN  IF ~r.ret.ok
                      THEN [board |-> r.board, ret |-> r.ret, done |-> i - 1]
                      ELSE make_moves_loop(r.board, moves, i + 1)

make_moves(b, moves) == make_moves_loop(b, moves, 1)

-----------------------------------------------------------------------------
(* The host (main.rs): it creates a board and issues calls one at a time.  *)

\* the squares of the host's single calls
InputSquares == {Address(c, r) : c \in InputCols, r \in 0..(ROW_SIZE - 1)}

\* the batch of main: e2-e4 c7-c6 b1-c3 d7-d5 e4-d5 d5-c6 c6-c7 c7-d8 e8-d8
\* c8-h3 g2-h3 h3-g4
MainMoves ==
    << << <<101, 50>>, <<101, 52>> >>, << <<99, 55>>, <<99, 54>> >>,
       << <<98, 49>>, <<99, 51>> >>,   << <<100, 55>>, <<100, 53>> >>,
       << <<101, 52>>, <<100, 53>> >>, << <<100, 53>>, <<99, 54>> >>,
       << <<99, 54>>, <<99, 55>> >>,   << <<99, 55>>, <<100, 56>> >>,
       << <<101, 56>>, <<100, 56>> >>, << <<99, 56>>, <<104, 51>> >>,
       << <<103, 50>>, <<104, 51>> >>, << <<104, 51>>, <<103, 52>> >> >>

\* e2-e4 d7-d5 d2-d3 d5-e4 d3-e4: every pair is a move of the side to move
ExchangeMoves ==
    << << <<101, 50>>, <<101, 52>> >>, << <<100, 55>>, <<100, 53>> >>,
       << <<100, 50>>, <<100, 51>> >>, << <<100, 53>>, <<101, 52>> >>,
       << <<100, 51>>, <<101, 52>> >> >>

\* e2-e4 e7-e9 d7-d5: the second text of the second pair is no square
BadToMoves ==
    << << <<101, 50>>, <<101, 52>> >>, << <<101, 55>>, <<101, 57>> >>,
       << <<100, 55>>, <<100, 53>> >> >>

\* E2-E4 f11-e5 d7-d5: the first text of the second pair is no square
BadFromMoves ==
    << << <<69, 50>>, <<69, 52>> >>, << <<102, 49, 49>>, <<101, 53>> >>,
       << <<100, 55>>, <<100, 53>> >> >>

\* e2-e4 d7-d5 e4-d5 c7-c6 d5-c6 a7-a6 c6-b7 a6-a5 b7-a8: a White pawn
\* walks to the last rank
PawnRunMoves ==
    << << <<101, 50>>, <<101, 52>> >>, << <<100, 55>>, <<100, 53>> >>,
       << <<101, 52>>, <<100, 53>> >>, << <<99, 55>>, <<99, 54>> >>,
       << <<100, 53>>, <<99, 54>> >>,  << <<97, 55>>, <<97, 54>> >>,
       << <<99, 54>>, <<98, 55>> >>,   << <<97, 54>>, <<97, 53>> >>,
       << <<98, 55>>, <<97, 56>> >> >>

\* the first nine pairs of the batch of main
ScenarioMoves == SubSeq(MainMoves, 1, 9)

\* d2-d4 e7-e4 d7-d5: e4 is no target of the pawn on e7
FarMoves ==
    << << <<100, 50>>, <<100, 52>> >>, << <<101, 55>>, <<101, 52>> >>,
       << <<100, 55>>, <<100, 53>> >> >>

\* b1-c3 d7-d5: a knight comes to stand before the pawn on c2
KnightOutMoves ==
    << << <<98, 49>>, <<99, 51>> >>, << <<100, 55>>, <<100, 53>> >> >>

\* a2-a4 a7-a5 a1-a3 a8-a6 a3-d3 a6-e6 d3-d7: both rooks come into the open
RookLiftMoves ==
    << << <<97, 50>>, <<97, 52>> >>,   << <<97, 55>>, <<97, 53>> >>,
       << <<97, 49>>, <<97, 51>> >>,   << <<97, 56>>, <<97, 54>> >>,
       << <<97, 51>>, <<100, 51>> >>,  << <<97, 54>>, <<101, 54>> >>,
       << <<100, 51>>, <<100, 55>> >> >>

\* e2-e4 e7-e5 f1-c4 f8-c5 d1-h5 g8-f6 h5-f7 e8-f7: bishops, a queen, a
\* knight and a king move and capture
OpenGameMoves ==
    << << <<101, 50>>, <<101, 52>> >>, << <<101, 55>>, <<101, 53>> >>,
       << <<102, 49>>, <<99, 52>> >>,  << <<102, 56>>, <<99, 53>> >>,
       << <<100, 49>>, <<104, 53>> >>, << <<103, 56>>, <<102, 54>> >>,
       << <<104, 53>>, <<102, 55>> >>, << <<101, 56>>, <<102, 55>> >> >>

\* the batches that stop a batch after each of its pairs
Prefixes(moves) == {SubSeq(moves, 1, n) : n \in 1..Len(moves)}

\* the batches the host may pass to make_moves
Batches ==
    {MainMoves, ScenarioMoves, ExchangeMoves, BadToMoves, BadFromMoves, FarMoves,
     PawnRunMoves, <<>>}
        \cup Prefixes(KnightOutMoves) \cup Prefixes(RookLiftMoves)
        \cup Prefixes(OpenGameMoves)

NoCall == [op |-> "none"]

Init ==
    /\ board \in {BoardNew, BoardNewEmpty}
    /\ result = NoCall
    /\ applied = 0

\* the host calls get_piece_moves(&board, address)
GetPieceMoves(address) ==
    /\ result = NoCall
    /\ result' = [op |-> "get_piece_moves", address |-> address,
                  ret |-> get_piece_moves(board, address)]
    /\ UNCHANGED <<board, applied>>

\* the host calls make_move(&mut board, from, to)
MakeMove(from, to) ==
    /\ result = NoCall
    /\ applied < MaxMoves
    /\ LET r == make_move(board, from, to)
       IN  /\ board' = r.board
           /\ result' = [op |-> "make_move", from |-> from, to |-> to, ret |-> r.ret]
           /\ applied' = IF r.ret.ok THEN applied + 1 ELSE applied

\* the host calls make_moves(&mut board, moves)
MakeMoves(moves) ==
    /\ result = NoCall
    /\ applied <= MaxBatchStart
    /\ LET r == make_moves(board, moves)
       IN  /\ board' = r.board
           /\ result' = [op |-> "make_moves", moves |-> moves, ret |-> r.ret]
           /\ applied' = applied + r.done

\* the host is done with the returned value and goes on to its next call
Continue ==
    /\ result # NoCall
    /\ result' = NoCall
    /\ UNCHANGED <<board, applied>>

Next ==
    \/ \E address \in InputSquares : GetPieceMoves(address)
    \/ \E from \in InputSquares, to \in InputSquares : MakeMove(from, to)
    \/ \E moves \in Batches : MakeMoves(moves)
    \/ Continue

Spec == Init /\ [][Next]_vars

-----------------------------------------------------------------------------
(* The host's calls on addresses: it parses texts (main.rs calls           *)
(* Address::parse), prints squares and shifts them.                        *)

\* the longest text the host passes
MaxTextLen == 3

\* the largest component of an offset the host passes
MaxShift == 7

\* '0'..'9', '@' 'A'..'I', '`' 'a'..'j', and a letter outside ASCII
TextChars == (48..57) \cup (64..73) \cup (96..106) \cup {1072}

\* '1', 'a', 'f': the characters of the texts longer than two
LongTextChars == {49, 97, 102}

\* the texts the host passes
Texts ==
    {<<>>} \cup {<<c>> : c \in TextChars} \cup {<<c, d>> : c \in TextChars, d \in TextChars}
        \cup UNION {[1..n -> LongTextChars] : n \in 3..MaxTextLen}

\* the offsets the host passes
Offsets == {<<dc, dr>> : dc \in (-MaxShift)..MaxShift, dr \in (-MaxShift)..MaxShift}

InitAddress ==
    /\ board = BoardNew
    /\ result = NoCall
    /\ applied = 0

\* the host calls Address::from_str(text)
FromStr(text) ==
    /\ result = NoCall
    /\ result' = [op |-> "from_str", text |-> text, ret |-> from_str(text)]
    /\ UNCHANGED <<board, applied>>

\* the host calls Address::parse(text)
Parse(text) ==
    /\ result = NoCall
    /\ result' = [op |-> "parse", text |-> text, ret |-> parse(text)]
    /\ UNCHANGED <<board, applied>>

\* the host prints an address (to_string, format!("{}", address))
DisplayAddress(address) ==
    /\ result = NoCall
    /\ result' = [op |-> "to_string", address |-> address, ret |-> fmt(address)]
    /\ UNCHANGED <<board, applied>>

\* the host calls address.get_shifted(offset)
GetShifted(address, offset) ==
    /\ result = NoCall
    /\ result' = [op |-> "get_shifted", address |-> address, offset |-> offset,
                  ret |-> get_shifted(address, offset)]
    /\ UNCHANGED <<board, applied>>

\* the host calls address.get_color()
GetColor(address) ==
    /\ result = NoCall
    /\ result' = [op |-> "get_color", address |-> address, ret |-> get_color(address)]
    /\ UNCHANGED <<board, applied>>

NextAddress ==
    \/ \E text \in Texts : FromStr(text)
    \/ \E text \in Texts : Parse(text)
    \/ \E address \in Addresses : DisplayAddress(address)
    \/ \E address \in Addresses, offset \in Offsets : GetShifted(address, offset)
    \/ \E address \in Addresses : GetColor(address)
    \/ Continue

SpecAddress == InitAddress /\ [][NextAddress]_vars

-----------------------------------------------------------------------------
(* Helpers of the properties *)

\* the squares of a list
Range(list) == {list[i] : i \in 1..Len(list)}

\* Some(piece) of the given colour
Holds(cell, color) == cell # None /\ cell[1].color = color

Opposite(color) == IF color = White THEN Black ELSE White

\* the number of pieces of a colour on the grid
OnGrid(b, color) ==
    Cardinality({i \in 0..(CELLS_COUNT - 1) : Holds(b.pieces[i], color)})

Graveyard(b, color) == IF color = White THEN b.white_graveyard ELSE b.black_graveyard

IsPrefix(s, t) == Len(s) <= Len(t) /\ SubSeq(t, 1, Len(s)) = s

\* the step is a call of make_move, and the primed result is what it returned
MakeMoveReturned == result = NoCall /\ result'.op = "make_move"

-----------------------------------------------------------------------------
(* C1 *)

\* C1: whenever make_move is called with a `from` that holds a piece whose
\* colour differs from board.whose_turn, it returns, for every `to`, the
\* error WrongColorTurn carrying board.whose_turn, and no other error.
C1_WrongColorTurn ==
    [][(MakeMoveReturned /\ Holds(get_cell(board, result'.from), Opposite(board.whose_turn)))
        => result'.ret = Err(WrongColorTurn(board.whose_turn))]_vars

-----------------------------------------------------------------------------
(* C2 *)

\* the board on which the k-th pair of a batch is tried, when the pairs before it applied
RECURSIVE BoardBeforePair(_, _, _)
BoardBeforePair(b, moves, k) ==
    IF k = 1 THEN b
    ELSE make_move(BoardBeforePair(b, moves, k - 1),
                   from_str(moves[k - 1][1]).val, from_str(moves[k - 1][2]).val).board

C2_TurnParity == (board.whose_turn = White) <=> (applied % 2 = 0)

C2_Step ==
    \* the turn changes exactly when an odd number of moves was applied by the call
    /\ (board'.whose_turn # board.whose_turn) <=> ((applied' - applied) % 2 = 1)
    /\ result'.op = "get_piece_moves" =>
            board'.whose_turn = board.whose_turn /\ applied' = applied
    /\ MakeMoveReturned =>
            IF result'.ret.ok
            THEN /\ applied' = applied + 1
                 /\ board'.whose_turn = Opposite(board.whose_turn)
                 /\ Holds(get_cell(board, result'.from),
                          IF applied' % 2 = 1 THEN White ELSE Black)
            ELSE applied' = applied /\ board'.whose_turn = board.whose_turn
    /\ result'.op = "make_moves" =>
            \A k \in 1..(applied' - applied) :
                Holds(get_cell(BoardBeforePair(board, result'.moves, k),
                               from_str(result'.moves[k][1]).val),
                      IF (applied + k) % 2 = 1 THEN White ELSE Black)

\* C2: over any sequence of get_piece_moves, make_move and make_moves calls
\* on a board made by Board::new() or Board::new_empty(), whose_turn is White
\* iff the number of moves applied so far is even, it changes exactly when a
\* make_move succeeds, and the k-th applied move moves a White piece for odd
\* k and a Black piece for even k.
C2_TurnAlternates == []C2_TurnParity /\ [][C2_Step]_vars

\* three moves were applied one by one, and it is Black's turn
C2_Witness ==
    /\ result.op = "make_move"
    /\ result.ret.ok
    /\ applied = 3
    /\ board.whose_turn = Black

-----------------------------------------------------------------------------
(* C3 *)

C3_Step ==
    (MakeMoveReturned /\ result'.ret.ok) =>
        LET from == result'.from
            to == result'.to
        IN  /\ get_cell(board, from) # None
            /\ get_cell(board', from) = None
            /\ get_cell(board', to) = get_cell(board, from)
            /\ \A a \in Addresses \ {from, to} : get_cell(board', a) = get_cell(board, a)
            /\ Len(board'.white_graveyard) + Len(board'.black_graveyard)
                 = Len(board.white_graveyard) + Len(board.black_graveyard)
                   + (IF get_cell(board, to) # None THEN 1 ELSE 0)

\* C3: when make_move(board, from, to) succeeds, afterwards `from` is empty,
\* `to` holds exactly the piece that was on `from`, every other square is
\* unchanged, and the two graveyards together grow by one if `to` was
\* occupied and by zero if it was empty.
C3_MoveEffect == [][C3_Step]_vars

\* a make_move that captured: the moved piece stands on `to`, `from` is
\* empty and the first captured piece lies in a graveyard
C3_Witness ==
    /\ result.op = "make_move"
    /\ result.ret.ok
    /\ get_cell(board, result.from) = None
    /\ Holds(get_cell(board, result.to), White)
    /\ Len(board.white_graveyard) + Len(board.black_graveyard) = 1

-----------------------------------------------------------------------------
(* C4 *)

\* kill_piece on one square of the board: the piece goes to the end of the
\* graveyard of its own colour, nothing else changes
C4_Kill(b, a) ==
    LET cell == get_cell(b, a)
        k == kill_piece(b, a)
    IN  IF cell = None THEN k = b
        ELSE /\ get_cell(k, a) = None
             /\ \A x \in Addresses \ {a} : get_cell(k, x) = get_cell(b, x)
             /\ Graveyard(k, cell[1].color) = Append(Graveyard(b, cell[1].color), cell[1])
             /\ Graveyard(k, Opposite(cell[1].color)) = Graveyard(b, Opposite(cell[1].color))
             /\ k.whose_turn = b.whose_turn /\ k.flip_board = b.flip_board

C4_State ==
    /\ \A i \in 1..Len(board.white_graveyard) : board.white_graveyard[i].color = White
    /\ \A i \in 1..Len(board.black_graveyard) : board.black_graveyard[i].color = Black
    /\ result = NoCall => \A a \in Addresses : C4_Kill(board, a)

C4_Step ==
    \* the earlier entries of both graveyards stay, in their order
    /\ IsPrefix(board.white_graveyard, board'.white_graveyard)
    /\ IsPrefix(board.black_graveyard, board'.black_graveyard)
    \* a piece leaves the grid exactly when it enters the graveyard of its colour
    /\ \A c \in Color :
          OnGrid(board, c) + Len(Graveyard(board, c))
            = OnGrid(board', c) + Len(Graveyard(board', c))
    \* a capturing move appends the captured piece, a non-capturing one nothing
    /\ (MakeMoveReturned /\ result'.ret.ok) =>
          LET victim == get_cell(board, result'.to)
          IN  IF victim = None
              THEN /\ board'.white_graveyard = board.white_graveyard
                   /\ board'.black_graveyard = board.black_graveyard
              ELSE /\ Graveyard(board', victim[1].color)
                        = Append(Graveyard(board, victim[1].color), victim[1])
                   /\ Graveyard(board', Opposite(victim[1].color))
                        = Graveyard(board, Opposite(victim[1].color))

\* C4: every piece removed from the grid (by kill_piece, or by a capturing
\* move_piece/make_move) is appended exactly once, at the end, to the
\* graveyard of its own colour, the earlier entries and the other graveyard
\* staying as they were; so white_graveyard holds only White pieces and
\* black_graveyard only Black pieces, in capture order.
C4_OwnGraveyard == []C4_State /\ [][C4_Step]_vars

\* a piece of each colour was captured
C4_Witness ==
    /\ Len(board.white_graveyard) = 1
    /\ Len(board.black_graveyard) = 1
    /\ board.white_graveyard[1] = Piece("Pawn", White)
    /\ board.black_graveyard[1] = Piece("Pawn", Black)

-----------------------------------------------------------------------------
(* C5 *)

C5_State ==
    result = NoCall =>
        \A s \in Addresses :
            get_cell(board, s) = None =>
                /\ get_piece_moves(board, s) = Err(NoPiece)
                /\ \A to \in Addresses, turn \in Color :
                      make_move([board EXCEPT !.whose_turn = turn], s, to).ret = Err(NoPiece)

C5_Step ==
    /\ (result = NoCall /\ result'.op = "get_piece_moves"
            /\ get_cell(board, result'.address) = None)
          => result'.ret = Err(NoPiece)
    /\ (MakeMoveReturned /\ get_cell(board, result'.from) = None)
          => result'.ret = Err(NoPiece)

\* C5: for every board and every empty square s, get_piece_moves(board, s)
\* returns the error NoPiece and make_move(board, s, to) fails with NoPiece
\* for every `to`, whoever holds the turn.
C5_NoPiece == []C5_State /\ [][C5_Step]_vars

\* make_move was called on an empty square of a board that holds pieces
C5_Witness ==
    /\ result.op = "make_move"
    /\ get_cell(board, result.from) = None
    /\ result.ret = Err(NoPiece)
    /\ applied = 2
    /\ board.whose_turn = White

-----------------------------------------------------------------------------
(* C6 *)

C6_Step ==
    MakeMoveReturned =>
        LET from == result'.from
            to == result'.to
            own == Holds(get_cell(board, from), board.whose_turn)
            member == own /\ to \in Range(get_piece_moves(board, from).val)
        IN  /\ result'.ret.ok <=> member
            /\ (own /\ ~member) => result'.ret = Err(UnreachableMove(from, to))

\* C6: when `from` holds a piece of the side to move and `to` is not in
\* get_piece_moves(board, from), make_move fails with UnreachableMove
\* carrying that `from` and that `to`; and make_move succeeds iff `from`
\* holds a piece of the side to move and `to` is in that list.
C6_Unreachable == [][C6_Step]_vars

\* a piece of the side to move was sent to a square it cannot reach
C6_Witness ==
    /\ result.op = "make_move"
    /\ Holds(get_cell(board, result.from), board.whose_turn)
    /\ result.from # result.to
    /\ result.ret = Err(UnreachableMove(result.from, result.to))

-----------------------------------------------------------------------------
(* C7 *)

\* what the i-th pair of a batch returns when the pairs before it applied
PairRet(b, moves, i) ==
    LET from == from_str(moves[i][1])
        to == from_str(moves[i][2])
    IN  IF ~from.ok \/ ~to.ok THEN Err(InvalidAddress(ParseAddressError))
        ELSE make_move(BoardBeforePair(b, moves, i), from.val, to.val).ret

\* the i-th pair is the first pair of the batch that fails
FirstFailing(b, moves, i) ==
    /\ \A j \in 1..(i - 1) : PairRet(b, moves, j).ok
    /\ ~PairRet(b, moves, i).ok

C7_Step ==
    (result = NoCall /\ result'.op = "make_moves") =>
        LET moves == result'.moves
        IN  /\ \A i \in 1..Len(moves) :
                  FirstFailing(board, moves, i) =>
                      /\ result'.ret = PairRet(board, moves, i)
                      /\ board' = BoardBeforePair(board, moves, i)
                      /\ applied' = applied + (i - 1)
                      /\ i > 1 => board' # board
            /\ (\A i \in 1..Len(moves) : ~FirstFailing(board, moves, i)) =>
                      /\ result'.ret = Ok(Unit)
                      /\ board' = BoardBeforePair(board, moves, Len(moves) + 1)
                      /\ applied' = applied + Len(moves)

\* C7: make_moves applies the pairs in order and stops at the first pair
\* that fails (a text that does not parse, reported as InvalidAddress, or a
\* failing make_move): it returns that error, the board is the board got by
\* applying only the pairs before the failing one, nothing is rolled back
\* and no later pair is applied.
C7_BatchStops == [][C7_Step]_vars

\* the batch e2-e4 e7-e9 d7-d5 stopped at its second pair: e2-e4 stands and
\* d7-d5 was not applied
C7_Witness ==
    /\ result.op = "make_moves"
    /\ result.moves = BadToMoves
    /\ result.ret = Err(InvalidAddress(ParseAddressError))
    /\ applied = 1
    /\ get_cell(board, Address(4, 3)) = Some(Piece("Pawn", White))
    /\ get_cell(board, Address(3, 6)) = Some(Piece("Pawn", Black))

-----------------------------------------------------------------------------
(* C8 *)

\* the step is make_moves(Board::new(), ScenarioMoves)
C8_ScenarioRun ==
    /\ result = NoCall
    /\ board = BoardNew
    /\ result'.op = "make_moves"
    /\ result'.moves = ScenarioMoves

\* C8 as stated: from Board::new() the batch e2-e4 c7-c6 b1-c3 d7-d5 e4-d5
\* d5-c6 c6-c7 c7-d8 e8-d8 applies all nine half-moves; then d8 holds
\* Black's king, the graveyards hold the pieces captured along the way in
\* capture order and whose_turn is Black.
C8_AllNineApplied ==
    [][C8_ScenarioRun =>
        /\ result'.ret = Ok(Unit)
        /\ applied' = 9
        /\ get_cell(board', Address(3, 7)) = Some(Piece("King", Black))
        /\ board'.black_graveyard
             = <<Piece("Pawn", Black), Piece("Pawn", Black), Piece("Queen", Black)>>
        /\ board'.white_graveyard = <<Piece("Pawn", White)>>
        /\ board'.whose_turn = Black]_vars

\* C8 amended: from Board::new() the batch applies its first five half-moves
\* e2-e4 c7-c6 b1-c3 d7-d5 e4-d5 and returns an error at the sixth pair
\* d5-c6, a White pawn moved on Black's turn; then d5 holds that White pawn,
\* d8 Black's queen and e8 Black's king, the black graveyard holds exactly
\* one Black pawn, the white graveyard is empty and whose_turn is Black.
C8_StopsAtSixth ==
    [][C8_ScenarioRun =>
        /\ ~result'.ret.ok
        /\ applied' = 5
        /\ get_cell(board', Address(3, 4)) = Some(Piece("Pawn", White))
        /\ get_cell(board', Address(2, 5)) = Some(Piece("Pawn", Black))
        /\ get_cell(board', Address(2, 2)) = Some(Piece("Knight", White))
        /\ get_cell(board', Address(3, 7)) = Some(Piece("Queen", Black))
        /\ get_cell(board', Address(4, 7)) = Some(Piece("King", Black))
        /\ board'.black_graveyard = <<Piece("Pawn", Black)>>
        /\ board'.white_graveyard = <<>>
        /\ board'.whose_turn = Black]_vars

\* the scenario batch has returned on a board that held the starting position
C8_Witness ==
    /\ result.op = "make_moves"
    /\ result.moves = ScenarioMoves
    /\ applied = 5
    /\ get_cell(board, Address(3, 4)) = Some(Piece("Pawn", White))

-----------------------------------------------------------------------------
(* C9 *)

\* boards with the occupancy of b and another turn, display flag or graveyards
C9_Variants(b) ==
    {[b EXCEPT !.whose_turn = t, !.flip_board = f,
               !.white_graveyard = g[1], !.black_graveyard = g[2]] :
        t \in Color, f \in BOOLEAN,
        g \in {<<b.white_graveyard, b.black_graveyard>>,
               <<b.black_graveyard, b.white_graveyard>>,
               << <<>>, <<>> >>,
               << <<Piece("Queen", White)>>, <<Piece("Queen", Black)>> >>}}

C9_State ==
    result = NoCall =>
        \A s \in Addresses, v \in C9_Variants(board) :
            get_piece_moves(v, s) = get_piece_moves(board, s)

C9_Step ==
    (result = NoCall /\ result'.op = "get_piece_moves") =>
        /\ board' = board
        /\ applied' = applied

\* C9: get_piece_moves is a read-only query: it leaves occupancy,
\* whose_turn, flip_board and both graveyards unchanged, and for boards with
\* the same occupancy that differ only in whose_turn, flip_board or the
\* graveyards it returns the same list, in the same order, for every square.
C9_ReadOnly == []C9_State /\ [][C9_Step]_vars

\* the targets of a White piece were listed while it is Black's turn and a
\* graveyard is not empty
C9_Witness ==
    /\ result.op = "get_piece_moves"
    /\ Holds(get_cell(board, result.address), White)
    /\ board.whose_turn = Black
    /\ Len(board.black_graveyard) = 1
    /\ result.ret.ok
    /\ Len(result.ret.val) > 0

-----------------------------------------------------------------------------
(* C10 *)

\* +1 towards increasing rank for White, -1 towards decreasing rank for Black
C10_Forward(color) == IF color = White THEN 1 ELSE -1

\* the squares the pawn rule allows a pawn of colour c on square s
C10_PawnTargets(b, s, c) ==
    {t \in Addresses :
        \/ /\ t.col = s.col
           /\ t.row = s.row + 2 * C10_Forward(c)
           /\ s.row = (IF c = White THEN 1 ELSE 6)
           /\ get_cell(b, t) = None
        \/ /\ t.col = s.col
           /\ t.row = s.row + C10_Forward(c)
           /\ get_cell(b, t) = None
        \/ /\ t.col \in {s.col - 1, s.col + 1}
           /\ t.row = s.row + C10_Forward(c)
           /\ Holds(get_cell(b, t), Opposite(c))}

\* C10: for a pawn of colour c on square s, get_piece_moves returns exactly
\* the square two ranks forward iff s is on c's starting rank (row 1 for
\* White, row 6 for Black) and that square is empty, the square one rank
\* forward iff it is on the board and empty, and each forward-diagonal square
\* iff it is on the board and holds a piece of the other colour; the e2 pawn
\* of the starting board yields exactly {e3, e4}, and a pawn off its starting
\* rank never gets the double-step square.
C10_PawnRule ==
    result = NoCall =>
        /\ \A s \in Addresses :
              (get_cell(board, s) # None /\ get_cell(board, s)[1].piece_type = "Pawn") =>
                  LET c == get_cell(board, s)[1].color
                      r == get_piece_moves(board, s)
                  IN  /\ r.ok
                      /\ Range(r.val) = C10_PawnTargets(board, s, c)
                      /\ s.row # (IF c = White THEN 1 ELSE 6) =>
                            Address(s.col, s.row + 2 * C10_Forward(c)) \notin Range(r.val)
        /\ board = BoardNew =>
              Range(get_piece_moves(board, Address(4, 1)).val)
                 = {Address(4, 2), Address(4, 3)}


\* the targets of a pawn off its starting rank were listed: one step forward
\* and one capture
C10_Witness ==
    /\ result.op = "get_piece_moves"
    /\ get_cell(board, result.address) # None
    /\ get_cell(board, result.address)[1].piece_type = "Pawn"
    /\ result.address.row \notin {1, 6}
    /\ result.ret.ok
    /\ Len(result.ret.val) = 2
    /\ \E i \in 1..2 : get_cell(board, result.ret.val[i]) # None

-----------------------------------------------------------------------------
(* C11 *)

\* the directions of a sliding piece: 4 diagonals, 4 orthogonals, or all 8
C11_Directions(piece_type) ==
    LET diagonals == {<<dc, dr>> : dc \in {-1, 1}, dr \in {-1, 1}}
        orthogonals == {<<-1, 0>>, <<1, 0>>, <<0, -1>>, <<0, 1>>}
    IN  CASE piece_type = "Bishop" -> diagonals
          [] piece_type = "Rook" -> orthogonals
          [] piece_type = "Queen" -> diagonals \cup orthogonals

\* the square k steps from s in direction d (it may lie off the board)
C11_Step(s, d, k) == Address(s.col + k * d[1], s.row + k * d[2])

\* the squares a sliding piece of colour c on s reaches: along each
\* direction every square up to the first occupied one, that one included
\* iff it holds a piece of the other colour
C11_RayTargets(b, s, c, piece_type) ==
    {t \in Addresses :
        \E d \in C11_Directions(piece_type), k \in 1..(ROW_SIZE - 1) :
            /\ t = C11_Step(s, d, k)
            /\ \A j \in 1..(k - 1) : get_cell(b, C11_Step(s, d, j)) = None
            /\ ~Holds(get_cell(b, t), c)}

\* C11: for a Bishop, Rook or Queen of colour c on square s,
\* get_piece_moves returns exactly the squares got by walking from s along
\* each of the piece's directions (4 diagonals, 4 orthogonals, all 8): every
\* empty square up to the board edge or the first occupied square, plus that
\* square iff it holds a piece of the other colour, and no square beyond it.
C11_SlidingRule ==
    result = NoCall =>
        \A s \in Addresses :
            (/\ get_cell(board, s) # None
             /\ get_cell(board, s)[1].piece_type \in {"Bishop", "Rook", "Queen"}) =>
                LET piece == get_cell(board, s)[1]
                    r == get_piece_moves(board, s)
                IN  /\ r.ok
                    /\ Range(r.val) = C11_RayTargets(board, s, piece.color, piece.piece_type)

\* the targets of a sliding piece were listed: empty squares, and an enemy
\* piece with a further enemy piece behind it that is not listed
C11_Witness ==
    /\ result.op = "get_piece_moves"
    /\ get_cell(board, result.address) = Some(Piece("Rook", White))
    /\ result.address = Address(3, 6)
    /\ Address(2, 6) \in Range(result.ret.val)
    /\ Holds(get_cell(board, Address(2, 6)), Black)
    /\ Holds(get_cell(board, Address(1, 6)), Black)
    /\ Address(1, 6) \notin Range(result.ret.val)
    /\ Address(3, 3) \in Range(result.ret.val)

-----------------------------------------------------------------------------
(* C12 *)

\* the 8 L-shaped jumps of a knight, or the 8 squares next to a king
C12_Offsets(piece_type) ==
    LET span == {-2, -1, 0, 1, 2}
        Abs(n) == IF n < 0 THEN -n ELSE n
    IN  CASE piece_type = "Knight" ->
                {<<dc, dr>> \in span \X span : {Abs(dc), Abs(dr)} = {1, 2}}
          [] piece_type = "King" ->
                {<<dc, dr>> \in span \X span :
                    Abs(dc) <= 1 /\ Abs(dr) <= 1 /\ <<dc, dr>> # <<0, 0>>}

\* the squares a knight or king of colour c on s reaches
C12_JumpTargets(b, s, c, piece_type) ==
    {t \in Addresses :
        /\ <<t.col - s.col, t.row - s.row>> \in C12_Offsets(piece_type)
        /\ ~Holds(get_cell(b, t), c)}

\* C12: for a Knight or King of colour c on square s, get_piece_moves
\* returns exactly the squares s + offset, over the 8 L-shaped knight offsets
\* or the 8 adjacent-square king offsets, that are on the board and are empty
\* or hold a piece of the other colour; off-board squares and squares
\* holding an own piece are never included.
C12_JumpRule ==
    result = NoCall =>
        \A s \in Addresses :
            (/\ get_cell(board, s) # None
             /\ get_cell(board, s)[1].piece_type \in {"Knight", "King"}) =>
                LET piece == get_cell(board, s)[1]
                    r == get_piece_moves(board, s)
                IN  /\ r.ok
                    /\ Cardinality(C12_Offsets(piece.piece_type)) = 8
                    /\ Range(r.val) = C12_JumpTargets(board, s, piece.color, piece.piece_type)
                    /\ \A t \in Range(r.val) :
                          t \in Addresses /\ ~Holds(get_cell(board, t), piece.color)

\* the targets of the White knight on c3 were listed: the Black pawn on d5
\* and empty squares are in the list, the own pawn on e2 is not
C12_Witness ==
    /\ result.op = "get_piece_moves"
    /\ result.address = Address(2, 2)
    /\ get_cell(board, result.address) = Some(Piece("Knight", White))
    /\ Holds(get_cell(board, Address(3, 4)), Black)
    /\ Address(3, 4) \in Range(result.ret.val)
    /\ Address(4, 3) \in Range(result.ret.val)
    /\ Address(4, 1) \notin Range(result.ret.val)
    /\ Len(result.ret.val) = 5

-----------------------------------------------------------------------------
(* C13 *)

\* the text is a file letter a..h or A..H followed by a rank digit 1..8
C13_IsCoordinate(text) ==
    /\ Len(text) = 2
    /\ text[1] \in (97..104) \cup (65..72)
    /\ text[2] \in 49..56

\* C13: for every square s with col < 8 and row < 8, parsing the text
\* printed for s (file letter 'a'..'h', then rank digit '1'..'8') yields s
\* again, with col = letter - 'a' and row = digit - '1', also when the letter
\* is upper-case; and parsing rejects with ParseAddressError every text
\* whose length is not 2, whose first character is no letter a..h or whose
\* second character is no digit 1..8.
C13_RoundTrip ==
    /\ result.op = "to_string" =>
          LET s == result.address
              text == result.ret
          IN  /\ text = <<97 + s.col, 49 + s.row>>
              /\ from_str(text) = Ok(s)
              /\ from_str(<<text[1] - 32, text[2]>>) = Ok(s)
    /\ result.op = "from_str" =>
          LET text == result.text
          IN  IF C13_IsCoordinate(text)
              THEN result.ret = Ok(Address(IF text[1] >= 97 THEN text[1] - 97
                                           ELSE text[1] - 65,
                                           text[2] - 49))
              ELSE result.ret = Err(ParseAddressError)

\* "f11" was parsed and rejected
C13_Witness ==
    /\ result.op = "from_str"
    /\ result.text = <<102, 49, 49>>
    /\ result.ret = Err(ParseAddressError)

-----------------------------------------------------------------------------
(* C14 *)

\* C14: Address::from_str and Address::parse report a text that is no valid
\* two-character coordinate as a recoverable invalid-address error value; no
\* text makes either of them panic.
C14_NeverPanics ==
    result.op \in {"from_str", "parse"} =>
        /\ result.ret # Panic
        /\ ~C13_IsCoordinate(result.text) => result.ret = Err(ParseAddressError)

-----------------------------------------------------------------------------
(* C15 *)

\* C15: for every square (col, row) and every offset (dc, dr) with
\* components in -7..7, get_shifted returns Some((col + dc, row + dr))
\* exactly when 0 <= col + dc < 8 and 0 <= row + dr < 8 and None otherwise,
\* with no wraparound; and when it returns Some(t), t shifted by (-dc, -dr)
\* is Some of the original square.
C15_ShiftExact ==
    result.op = "get_shifted" =>
        LET s == result.address
            dc == result.offset[1]
            dr == result.offset[2]
            inside == /\ 0 <= s.col + dc /\ s.col + dc < 8
                      /\ 0 <= s.row + dr /\ s.row + dr < 8
        IN  /\ inside => result.ret = Some(Address(s.col + dc, s.row + dr))
            /\ ~inside => result.ret = None
            /\ result.ret # None =>
                  /\ result.ret[1] \in Addresses
                  /\ get_shifted(result.ret[1], <<-dc, -dr>>) = Some(s)

\* a8 shifted by (7, -7) gave h1
C15_Witness ==
    /\ result.op = "get_shifted"
    /\ result.address = Address(0, 7)
    /\ result.offset = <<7, -7>>
    /\ result.ret = Some(Address(7, 0))

-----------------------------------------------------------------------------
(* C16 *)

\* the piece of the conventional starting position on a square
C16_StartCell(s) ==
    LET back == CASE s.col \in {0, 7} -> "Rook"
                  [] s.col \in {1, 6} -> "Knight"
                  [] s.col \in {2, 5} -> "Bishop"
                  [] s.col = 3 -> "Queen"
                  [] s.col = 4 -> "King"
    IN  CASE s.row = 0 -> Some(Piece(back, White))
          [] s.row = 1 -> Some(Piece("Pawn", White))
          [] s.row = 6 -> Some(Piece("Pawn", Black))
          [] s.row = 7 -> Some(Piece(back, Black))
          [] OTHER -> None

\* C16: Board::new() yields the conventional starting position: White
\* R N B Q K B N R on a1..h1 and 8 White pawns on rank 2, Black
\* R N B Q K B N R on a8..h8 and 8 Black pawns on rank 7 (16 pieces per
\* side), all other squares empty, White to move, both graveyards empty;
\* Board::new_empty() yields 64 empty squares, White to move, both
\* graveyards empty.  Read on the board before any move was applied to it.
C16_Constructors ==
    applied = 0 =>
        /\ board.whose_turn = White
        /\ board.white_graveyard = <<>>
        /\ board.black_graveyard = <<>>
        /\ \/ /\ \A s \in Addresses : get_cell(board, s) = C16_StartCell(s)
              /\ OnGrid(board, White) = 16
              /\ OnGrid(board, Black) = 16
           \/ \A s \in Addresses : get_cell(board, s) = None

\* the moves of the White king of Board::new() were asked for: it stands on
\* e1, the queen on d1
C16_Witness ==
    /\ applied = 0
    /\ result.op = "get_piece_moves"
    /\ result.address = Address(4, 0)
    /\ get_cell(board, result.address) = Some(Piece("King", White))
    /\ get_cell(board, Address(3, 0)) = Some(Piece("Queen", White))
    /\ result.ret = Ok(<<>>)

-----------------------------------------------------------------------------
(* C17 *)

\* the square k ranks ahead of s, seen from the side `color`
C17_Ahead(s, color, k) == Address(s.col, IF color = White THEN s.row + k ELSE s.row - k)

\* a pawn of `color` stands on s, on its starting rank, the square ahead is
\* occupied and the square two ranks ahead is empty
C17_Blocked(b, s, color) ==
    /\ get_cell(b, s) = Some(Piece("Pawn", color))
    /\ s.row = (IF color = White THEN 1 ELSE 6)
    /\ get_cell(b, C17_Ahead(s, color, 1)) # None
    /\ get_cell(b, C17_Ahead(s, color, 2)) = None

C17_State ==
    result = NoCall =>
        \A s \in Addresses, color \in Color :
            C17_Blocked(board, s, color) =>
                LET r == get_piece_moves(board, s)
                IN  /\ r.ok
                    /\ C17_Ahead(s, color, 2) \in Range(r.val)
                    /\ C17_Ahead(s, color, 1) \notin Range(r.val)

C17_Step ==
    (/\ MakeMoveReturned
     /\ C17_Blocked(board, result'.from, board.whose_turn)
     /\ result'.to = C17_Ahead(result'.from, board.whose_turn, 2)) =>
        /\ result'.ret = Ok(Unit)
        /\ get_cell(board', result'.from) = None
        /\ get_cell(board', result'.to) = get_cell(board, result'.from)
        /\ get_cell(board', C17_Ahead(result'.from, board.whose_turn, 1))
               = get_cell(board, C17_Ahead(result'.from, board.whose_turn, 1))

\* C17: a pawn on its starting rank whose square directly ahead is occupied
\* (by a piece of either colour) and whose square two ranks ahead is empty
\* has the double-step destination in its target list but not the
\* single-step destination, so make_move accepts a pawn jumping over the
\* blocking piece when it is that pawn's side to move.
C17_PawnJumps == []C17_State /\ [][C17_Step]_vars

\* the pawn c2 jumped over the knight on c3 to c4
C17_Witness ==
    /\ result.op = "make_move"
    /\ result.from = Address(2, 1)
    /\ result.to = Address(2, 3)
    /\ result.ret = Ok(Unit)
    /\ get_cell(board, Address(2, 2)) = Some(Piece("Knight", White))
    /\ get_cell(board, Address(2, 3)) = Some(Piece("Pawn", White))
    /\ get_cell(board, Address(2, 1)) = None

-----------------------------------------------------------------------------
(* C18 *)

C18_Step ==
    (MakeMoveReturned /\ ~result'.ret.ok) =>
        /\ result'.ret.err \in
              {NoPiece, UnreachableMove(result'.from, result'.to)}
                  \cup {WrongColorTurn(color) : color \in Color}
        /\ \A s \in Addresses : get_cell(board', s) = get_cell(board, s)
        /\ board'.whose_turn = board.whose_turn
        /\ board'.flip_board = board.flip_board
        /\ board'.white_graveyard = board.white_graveyard
        /\ board'.black_graveyard = board.black_graveyard
        /\ board' = board

\* C18: whenever make_move(board, from, to) returns an error (NoPiece,
\* WrongColorTurn or UnreachableMove), the board is left exactly as it was
\* before the call: every square, whose_turn, flip_board and both
\* graveyards are unchanged.
C18_ErrorKeepsBoard == [][C18_Step]_vars

\* after two applied moves, a piece of the side to move was sent to a
\* square it cannot reach
C18_Witness ==
    /\ result.op = "make_move"
    /\ applied = 2
    /\ ~result.ret.ok
    /\ result.ret.err = UnreachableMove(result.from, result.to)
    /\ board.whose_turn = White
    /\ Holds(get_cell(board, result.from), White)

-----------------------------------------------------------------------------
(* C19 *)

\* the board holds no piece at all, on the grid or in a graveyard
C19_Empty(b) ==
    /\ \A s \in Addresses : get_cell(b, s) = None
    /\ b.white_graveyard = <<>>
    /\ b.black_graveyard = <<>>

C19_State ==
    \/ C19_Empty(board)
    \/ \A color \in Color : OnGrid(board, color) + Len(Graveyard(board, color)) = 16

C19_Step ==
    (MakeMoveReturned /\ result'.ret.ok) =>
        /\ get_cell(board, result'.from) # None
        /\ result'.to # result'.from

\* C19: pieces are conserved under play: after any sequence of make_move
\* calls (successful or failing) starting from Board::new(), for each colour
\* the number of pieces of that colour on the grid plus the length of that
\* colour's graveyard equals 16, because make_move only calls move_piece
\* with an occupied `from` and with `to` different from `from`.  (A board of
\* Board::new_empty() holds no piece and keeps none.)
C19_Conserved == []C19_State /\ [][C19_Step]_vars

\* a make_move captured a Black piece: 15 on the grid, one in the graveyard
C19_Witness ==
    /\ result.op = "make_move"
    /\ result.ret.ok
    /\ OnGrid(board, Black) = 15
    /\ Len(board.black_graveyard) = 1
    /\ OnGrid(board, White) = 16

-----------------------------------------------------------------------------
(* C20 *)

C20_State ==
    result = NoCall =>
        \A s \in Addresses :
            get_cell(board, s) # None =>
                LET r == get_piece_moves(board, s)
                    color == get_cell(board, s)[1].color
                IN  /\ r.ok
                    /\ s \notin Range(r.val)
                    /\ \A t \in Range(r.val) : ~Holds(get_cell(board, t), color)
                    /\ Cardinality(Range(r.val)) = Len(r.val)

\* make_move(from, to) took the board b to b2: the graveyard of the mover's
\* colour is untouched, the other one grew at most by pieces of the other
\* colour, taken from `to`
C20_Capture(b, from, to, b2) ==
    LET mover == get_cell(b, from)[1].color
        before == Len(Graveyard(b, Opposite(mover)))
        after == Graveyard(b2, Opposite(mover))
    IN  /\ Graveyard(b2, mover) = Graveyard(b, mover)
        /\ IsPrefix(Graveyard(b, Opposite(mover)), after)
        /\ \A i \in (before + 1)..Len(after) : after[i].color = Opposite(mover)
        /\ Len(after) > before => Holds(get_cell(b, to), Opposite(mover))

C20_Step ==
    /\ (MakeMoveReturned /\ result'.ret.ok) =>
          C20_Capture(board, result'.from, result'.to, board')
    /\ (result = NoCall /\ result'.op = "make_moves") =>
          \A k \in 1..(applied' - applied) :
              C20_Capture(BoardBeforePair(board, result'.moves, k),
                          from_str(result'.moves[k][1]).val,
                          from_str(result'.moves[k][2]).val,
                          BoardBeforePair(board, result'.moves, k + 1))

\* C20: for every board and every occupied square s, the list returned by
\* get_piece_moves never contains s itself, never contains a square occupied
\* by a piece of the same colour as the piece on s, and contains no square
\* twice; consequently every piece that a successful make_move sends to a
\* graveyard has the colour opposite to the piece that moved.
C20_NoSelfCapture == []C20_State /\ [][C20_Step]_vars

\* a batch ran to its end in which White captured a Black piece and Black
\* a White one
C20_Witness ==
    /\ result.op = "make_moves"
    /\ result.ret = Ok(Unit)
    /\ Len(board.white_graveyard) = 1
    /\ board.white_graveyard[1].color = White
    /\ Len(board.black_graveyard) = 1
    /\ board.black_graveyard[1].color = Black

-----------------------------------------------------------------------------
(* C21 *)

\* C21 as stated: get_color returns the light colour (Color::White) exactly
\* when (rank % 2) = (file % 2) and the dark colour (Color::Black)
\* otherwise, for every one of the 64 squares.
C21_LightOnEqualParity ==
    result.op = "get_color" =>
        LET s == result.address
        IN  /\ (s.row % 2 = s.col % 2) => result.ret = White
            /\ (s.row % 2 # s.col % 2) => result.ret = Black

\* C21 amended: get_color returns the dark colour (Color::Black) exactly
\* when (rank % 2) = (file % 2) and the light colour (Color::White)
\* otherwise, for every one of the 64 squares: a1 is dark, and a square and
\* its neighbour on the next file or the next rank never have the same
\* colour.
C21_DarkOnEqualParity ==
    result.op = "get_color" =>
        LET s == result.address
        IN  /\ (s.row % 2 = s.col % 2) => result.ret = Black
            /\ (s.row % 2 # s.col % 2) => result.ret = White
            /\ s = Address(0, 0) => result.ret = Black
            /\ \A offset \in {<<1, 0>>, <<0, 1>>} :
                  get_shifted(s, offset) # None =>
                      get_color(get_shifted(s, offset)[1]) = Opposite(result.ret)

\* the colour of a1 was asked for: dark
C21_Witness ==
    /\ result.op = "get_color"
    /\ result.address = Address(0, 0)
    /\ result.ret = Black

-----------------------------------------------------------------------------
(* C22 *)

\* the cell of a square, rank by rank and file by file within a rank
C22_Cell(s) == s.row * 8 + s.col

C22_State ==
    result = NoCall =>
        /\ \A s \in Addresses :
              /\ get_index(s) = C22_Cell(s)
              /\ get_cell(board, s) = board.pieces[C22_Cell(s)]
              /\ s.col < 7 => get_index(Address(s.col + 1, s.row)) = get_index(s) + 1
              /\ (s.col = 7 /\ s.row < 7) => get_index(Address(0, s.row + 1)) = get_index(s) + 1
        /\ from_str(<<101, 52>>) = Ok(Address(4, 3))
        /\ get_index(from_str(<<101, 52>>).val) = 28
        /\ get_index(Address(0, 0)) = 0
        /\ Cardinality(Addresses) = 64
        /\ {get_index(s) : s \in Addresses} = 0..63
        /\ \A s \in InputSquares :
              kill_piece(board, s).pieces = [board.pieces EXCEPT ![C22_Cell(s)] = None]
        /\ \A from \in InputSquares, to \in InputSquares :
              move_piece(board, from, to).pieces =
                  [[board.pieces EXCEPT ![C22_Cell(to)] = board.pieces[C22_Cell(from)]]
                      EXCEPT ![C22_Cell(from)] = None]

C22_Step ==
    (MakeMoveReturned /\ result'.ret.ok) =>
        /\ board'.pieces[C22_Cell(result'.to)] = board.pieces[C22_Cell(result'.from)]
        /\ board'.pieces[C22_Cell(result'.from)] = None
        /\ \A i \in 0..63 :
              i \notin {C22_Cell(result'.from), C22_Cell(result'.to)} =>
                  board'.pieces[i] = board.pieces[i]

====
